---- MODULE Spec2Model ----
(***************************************************************************)
(* Model of the dependency scanner of npm-graph (Node Module Map).         *)
(*                                                                         *)
(* Strings are sequences of tokens.  A token is one character ("1", ".",   *)
(* "-", "v", ...) or one of the fixed literals the code concatenates       *)
(* ("legacy-root", "root-", "->", "node_modules/", ...).  Concatenation is *)
(* \o, so that an id is what the template literal builds.                  *)
(***************************************************************************)
EXTENDS Integers, Sequences, FiniteSets, TLC

(* ------------------------------------------------------------------ *)
(* Bounds of the model                                                 *)
(* ------------------------------------------------------------------ *)

\* most packages a manifest declares when the workspace has one folder; with
\* k folders each manifest declares at most MaxDeclared + 1 - k
MaxDeclared == 2

\* most entries of a lockfile (packages entries and top-level legacy entries)
\* when the workspace has one folder; with k folders, MaxLockEntries + 1 - k
MaxLockEntries == 1

(* ------------------------------------------------------------------ *)
(* Strings                                                             *)
(* ------------------------------------------------------------------ *)

\* the value of an absent optional string (undefined / null)
VARIABLE
  run   \* which call of scanWorkspace on the singleton scanner this is

UNDEF == <<"<undefined>">>

Digits == {"0", "1", "2", "3", "4", "5", "6", "7", "8", "9"}

DigitVal(c) ==
  CASE c = "0" -> 0 [] c = "1" -> 1 [] c = "2" -> 2 [] c = "3" -> 3
    [] c = "4" -> 4 [] c = "5" -> 5 [] c = "6" -> 6 [] c = "7" -> 7
    [] c = "8" -> 8 [] c = "9" -> 9

\* s.includes(c)
Includes(s, c) == \E i \in 1..Len(s) : s[i] = c

\* index of the first c in s, Len(s) + 1 when there is none
FirstIndex(s, c) ==
  IF Includes(s, c) THEN CHOOSE i \in 1..Len(s) : s[i] = c /\ \A j \in 1..(i - 1) : s[j] # c
  ELSE Len(s) + 1

\* s.split(c): the pieces of s between the occurrences of c
RECURSIVE Split(_, _)
Split(s, c) ==
  LET i == FirstIndex(s, c) IN
  IF i > Len(s) THEN <<s>>
  ELSE <<SubSeq(s, 1, i - 1)>> \o Split(SubSeq(s, i + 1, Len(s)), c)

\* s.replace(/^v/, ''): drops one leading lowercase v
StripV(s) == IF Len(s) > 0 /\ s[1] = "v" THEN Tail(s) ELSE s

\* the longest prefix of s made of digits
DigitPrefix(s) ==
  LET n == IF \E i \in 1..Len(s) : s[i] \notin Digits
           THEN (CHOOSE i \in 1..Len(s) : s[i] \notin Digits /\ \A j \in 1..(i - 1) : s[j] \in Digits) - 1
           ELSE Len(s)
  IN SubSeq(s, 1, n)

RECURSIVE DecimalValue(_)
DecimalValue(ds) ==
  IF Len(ds) = 0 THEN 0
  ELSE 10 * DecimalValue(SubSeq(ds, 1, Len(ds) - 1)) + DigitVal(ds[Len(ds)])

\* parseInt(s, 10) || 0: the leading digits of s as a number, 0 when there are none
ParseIntOr0(s) == DecimalValue(DigitPrefix(s))

\* path.basename(p) of a path given as its segments
Basename(p) == p[Len(p)]

(* ------------------------------------------------------------------ *)
(* Utils                                                               *)
(* ------------------------------------------------------------------ *)

\* ids that carry the number of the call after the first
generateDependencyIdPerCall(name, version, source) ==
  name \o <<"@">> \o version \o <<"-">> \o Basename(source) \o (IF run = 1 THEN <<>> ELSE <<"#", "2">>)

\* Utils.generateDependencyId: `${name}@${version}-${path.basename(source)}`
generateDependencyId(name, version, source) ==
  name \o <<"@">> \o version \o <<"-">> \o Basename(source)

\* the numeric parts Utils.compareVersions compares
UtilsParts(v) == [i \in 1..Len(Split(v, ".")) |-> ParseIntOr0(Split(Split(v, ".")[i], "-")[1])]

PartAt(parts, i) == IF i <= Len(parts) THEN parts[i] ELSE 0

\* the first index at which two part lists differ, 0 when none does
FirstDiff(p1, p2) ==
  LET n == IF Len(p1) > Len(p2) THEN Len(p1) ELSE Len(p2)
      D == {i \in 1..n : PartAt(p1, i) # PartAt(p2, i)}
  IN IF D = {} THEN 0 ELSE CHOOSE i \in D : \A j \in D : i <= j

\* a compareVersions that applies the pre-release rule to its first argument only
compareVersionsOneSided(version1, version2) ==
  LET v1 == StripV(version1)
      v2 == StripV(version2)
      p1 == UtilsParts(v1)
      p2 == UtilsParts(v2)
      d == FirstDiff(p1, p2)
  IN IF Includes(v1, "-") /\ ~Includes(v2, "-") THEN 2
     ELSE IF d = 0 THEN 0
     ELSE IF PartAt(p1, d) > PartAt(p2, d) THEN 1 ELSE 2

\* Utils.compareVersions: 1 if version1 > version2, 2 if version1 < version2, 0 if equal
compareVersions(version1, version2) ==
  LET v1 == StripV(version1)
      v2 == StripV(version2)
      v1HasPreRelease == Includes(v1, "-")
      v2HasPreRelease == Includes(v2, "-")
      p1 == UtilsParts(v1)
      p2 == UtilsParts(v2)
      d == FirstDiff(p1, p2)
  IN IF v1HasPreRelease /\ ~v2HasPreRelease THEN 2
     ELSE IF ~v1HasPreRelease /\ v2HasPreRelease THEN 1
     ELSE IF d = 0 THEN 0
     ELSE IF PartAt(p1, d) > PartAt(p2, d) THEN 1 ELSE 2

\* Utils.isVersionOutdated
isVersionOutdated(current, latest) == compareVersions(current, latest) = 2

\* Number(s) of a piece of a version string, as <<kind, value>>: the empty
\* string is 0, a string of digits its value, anything else NaN
NumberOf(s) ==
  IF \A i \in 1..Len(s) : s[i] \in Digits THEN <<"number", DecimalValue(s)>> ELSE <<"NaN", 0>>

\* parts[i] of s.split('.').map(Number), undefined past the end
NumberPartAt(s, i) ==
  LET parts == Split(s, ".")
  IN IF i <= Len(parts) THEN NumberOf(parts[i]) ELSE <<"undefined", 0>>

\* x !== y on numbers and undefined: NaN differs from everything, itself included
StrictNotEqual(x, y) == x[1] = "NaN" \/ y[1] = "NaN" \/ x # y

\* Utils.getUpdateType
getUpdateType(current, latest) ==
  IF ~isVersionOutdated(current, latest) THEN "none"
  ELSE IF StrictNotEqual(NumberPartAt(current, 1), NumberPartAt(latest, 1)) THEN "major"
  ELSE IF StrictNotEqual(NumberPartAt(current, 2), NumberPartAt(latest, 2)) THEN "minor"
  ELSE "patch"

\* Utils.getStatusColor
getStatusColor(status) ==
  CASE status = "up-to-date" -> "#4CAF50"
    [] status = "outdated" -> "#FF9800"
    [] status = "vulnerable" -> "#F44336"
    [] status = "conflict" -> "#2196F3"
    [] OTHER -> "#9E9E9E"

(* ------------------------------------------------------------------ *)
(* NpmRegistryService                                                  *)
(* ------------------------------------------------------------------ *)

\* the numeric parts NpmRegistryService.compareVersions compares
RegistryParts(v) == [i \in 1..Len(Split(StripV(v), ".")) |-> ParseIntOr0(Split(StripV(v), ".")[i])]

\* NpmRegistryService.compareVersions: 1, -1 or 0
registryCompareVersions(version1, version2) ==
  LET p1 == RegistryParts(version1)
      p2 == RegistryParts(version2)
      d == FirstDiff(p1, p2)
  IN IF d = 0 THEN 0
     ELSE IF PartAt(p1, d) > PartAt(p2, d) THEN 1 ELSE -1

\* a dependency object where a version string is expected (its text in a
\* template string)
OBJ == <<"[object Object]">>

\* a getVersionInfo that reports a failed lookup as an outdated package
getVersionInfoFailureOutdated(currentVersion, latestVersion) ==
  IF latestVersion = UNDEF \/ latestVersion = <<>> \/ currentVersion = OBJ
  THEN [current |-> currentVersion, latest |-> currentVersion, isOutdated |-> TRUE]
  ELSE [current |-> currentVersion, latest |-> latestVersion,
        isOutdated |-> registryCompareVersions(currentVersion, latestVersion) < 0]

\* NpmRegistryService.getVersionInfo, given what getLatestVersion answered
\* (UNDEF: no version, the lookup failed).  compareVersions throws on a
\* currentVersion that is no string, and the catch answers as for no version.
getVersionInfo(currentVersion, latestVersion) ==
  IF latestVersion = UNDEF \/ latestVersion = <<>> \/ currentVersion = OBJ
  THEN [current |-> currentVersion, latest |-> currentVersion, isOutdated |-> FALSE]
  ELSE [current |-> currentVersion, latest |-> latestVersion,
        isOutdated |-> registryCompareVersions(currentVersion, latestVersion) < 0]

(* ------------------------------------------------------------------ *)
(* Manifest and lockfile records                                       *)
(*                                                                     *)
(* A manifest section and a dependency map of the lockfile are         *)
(* sequences of [name, version] in key order (Object.entries).         *)
(* A lockfile is [exists, packages, dependencies]:                     *)
(*   packages      sequence of [path, name, version, dependencies]     *)
(*                 (npm v7+), name = UNDEF when the entry has none     *)
(*   dependencies  sequence of [name, version, dependencies] (legacy), *)
(*                 nested                                              *)
(* An absent map and an empty one take the same branches everywhere    *)
(* in the scanner, so both are the empty sequence.                     *)
(* ------------------------------------------------------------------ *)

\* the string a legacy dependency object becomes in a template literal
SectionKeys == <<"dependencies", "devDependencies", "peerDependencies", "optionalDependencies">>

SectionType(key) ==
  CASE key = "dependencies" -> "dependency"
    [] key = "devDependencies" -> "devDependency"
    [] key = "peerDependencies" -> "peerDependency"
    [] key = "optionalDependencies" -> "optionalDependency"

\* packageJson[key]
SectionOf(packageJson, key) ==
  CASE key = "dependencies" -> packageJson.dependencies
    [] key = "devDependencies" -> packageJson.devDependencies
    [] key = "peerDependencies" -> packageJson.peerDependencies
    [] key = "optionalDependencies" -> packageJson.optionalDependencies

\* path.basename of a lockfile key such as node_modules/a/node_modules/b
SlashTokens == {"node_modules/", "/"}

PathBasename(path) ==
  LET S == {i \in 1..Len(path) : path[i] \in SlashTokens}
      last == IF S = {} THEN 0 ELSE CHOOSE i \in S : \A j \in S : j <= i
  IN SubSeq(path, last + 1, Len(path))

\* the first element of seq satisfying Test, as a sequence of length 0 or 1
FirstIndexWhere(seq, Test(_)) ==
  LET S == {i \in 1..Len(seq) : Test(seq[i])}
  IN IF S = {} THEN 0 ELSE CHOOSE i \in S : \A j \in S : i <= j

\* Object.assign(result, deps) on key-ordered maps: a known key keeps its place
\* and takes the new value, a new key is appended
RECURSIVE ObjectAssign(_, _)
ObjectAssign(result, deps) ==
  IF Len(deps) = 0 THEN result
  ELSE LET d == Head(deps)
           k == FirstIndexWhere(result, LAMBDA e : e.name = d.name)
       IN ObjectAssign(IF k = 0 THEN Append(result, d) ELSE [result EXCEPT ![k] = d], Tail(deps))

(* ------------------------------------------------------------------ *)
(* DependencyScanner: nodes                                            *)
(* ------------------------------------------------------------------ *)

\* DependencyScanner.findPackageInLockFile: the version found, UNDEF when none
findPackageInLockFile(packageName, packageLockJson) ==
  LET k == FirstIndexWhere(packageLockJson.dependencies, LAMBDA e : e.name = packageName)
      packageKey == <<"node_modules/">> \o packageName
      m == FirstIndexWhere(packageLockJson.packages, LAMBDA e : e.path = packageKey)
  IN IF k # 0 THEN packageLockJson.dependencies[k].version
     ELSE IF m # 0 THEN packageLockJson.packages[m].version
     ELSE UNDEF

\* the dependency maps of the packages entries named packageName, merged in order
RECURSIVE AssignPackages(_, _, _)
AssignPackages(result, packages, packageName) ==
  IF Len(packages) = 0 THEN result
  ELSE LET e == Head(packages)
       IN AssignPackages(
            IF e.name = packageName /\ Len(e.dependencies) > 0
            THEN ObjectAssign(result, e.dependencies) ELSE result,
            Tail(packages), packageName)

\* DependencyScanner.findTransitiveDependencies.  The legacy section contributes
\* its nested dependency objects as the values.
findTransitiveDependencies(packageName, packageLockJson) ==
  LET r1 == AssignPackages(<<>>, packageLockJson.packages, packageName)
      k == FirstIndexWhere(packageLockJson.dependencies, LAMBDA e : e.name = packageName)
      nested == IF k = 0 THEN <<>> ELSE packageLockJson.dependencies[k].dependencies
  IN ObjectAssign(r1, [i \in 1..Len(nested) |-> [name |-> nested[i].name, version |-> OBJ]])

\* DependencyScanner.determinePackageStatus.  Utils.compareVersions answers 0, 1
\* or 2; on a dependency object it throws, which createDependencyNode catches.
determinePackageStatus(requiredVersion, actualVersion, latestVersion) ==
  IF requiredVersion # actualVersion THEN "conflict"
  ELSE IF latestVersion # UNDEF /\ latestVersion # <<>> /\ actualVersion # OBJ
          /\ compareVersions(actualVersion, latestVersion) < 0 THEN "outdated"
  ELSE "up-to-date"

\* DependencyScanner.calculateNodeSize, in tenths (a size of 14.4 is 144)
calculateNodeSize(depth, type) ==
  LET reduced == 20 - (depth * 2)
      baseSize == IF depth > 0 THEN (IF reduced > 12 THEN reduced ELSE 12) ELSE 20
  IN CASE type = "dependency" -> baseSize * 10
       [] type = "devDependency" -> baseSize * 8
       [] type = "peerDependency" -> baseSize * 9
       [] type = "optionalDependency" -> baseSize * 7
       [] OTHER -> baseSize * 10

\* DependencyScanner.createDependencyNode.  reg is what the registry answers for
\* each package name (UNDEF: getPackageInfo returns null).
createDependencyNode(name, version, type, sourcePath, packageLockJson, depth, options, reg) ==
  LET lockInfo == IF packageLockJson.exists THEN findPackageInLockFile(name, packageLockJson) ELSE UNDEF
      actualVersion == IF lockInfo # UNDEF THEN lockInfo ELSE version
      checked == options.enableVersionChecking /\ reg[name] # UNDEF
      latestVersion == IF checked THEN reg[name] ELSE UNDEF
      status == IF checked THEN determinePackageStatus(version, actualVersion, latestVersion)
                ELSE "up-to-date"
  IN [id |-> generateDependencyId(name, actualVersion, sourcePath),
      name |-> name,
      version |-> actualVersion,
      latestVersion |-> latestVersion,
      type |-> type,
      status |-> status,
      source |-> sourcePath,
      depth |-> depth,
      size |-> calculateNodeSize(depth, type),
      color |-> getStatusColor(status)]

\* the nodes of one manifest section
SectionNodes(deps, type, sourcePath, packageLockJson, options, reg) ==
  [i \in 1..Len(deps) |->
     createDependencyNode(deps[i].name, deps[i].version, type, sourcePath, packageLockJson, 0, options, reg)]

IncludeSection(key, options) ==
  CASE key = "dependencies" -> TRUE
    [] key = "devDependencies" -> options.includeDevDependencies
    [] key = "peerDependencies" -> options.includePeerDependencies
    [] key = "optionalDependencies" -> options.includeOptionalDependencies

\* the direct dependencies: the loop over dependencyTypes of parseDependenciesWithDepth
RECURSIVE DirectNodes(_, _, _, _, _, _)
DirectNodes(k, packageJson, packageLockJson, sourcePath, options, reg) ==
  IF k > Len(SectionKeys) THEN <<>>
  ELSE (IF IncludeSection(SectionKeys[k], options)
        THEN SectionNodes(SectionOf(packageJson, SectionKeys[k]), SectionType(SectionKeys[k]),
                          sourcePath, packageLockJson, options, reg)
        ELSE <<>>)
       \o DirectNodes(k + 1, packageJson, packageLockJson, sourcePath, options, reg)

\* the inner loop of processTransitiveDependencies over the transitive
\* dependencies of one node: st = [nodes, processed]
RECURSIVE WalkEntries(_, _, _, _, _, _, _)
WalkEntries(st, entries, packageLockJson, sourcePath, currentDepth, options, reg) ==
  IF Len(entries) = 0 THEN st
  ELSE LET e == Head(entries)
           depId == generateDependencyId(e.name, e.version, sourcePath)
           exists == \E i \in 1..Len(st.nodes) : st.nodes[i].id = depId
           next ==
             IF depId \in st.processed THEN st
             ELSE [nodes |-> IF exists THEN st.nodes
                             ELSE Append(st.nodes,
                                    createDependencyNode(e.name, e.version, "dependency", sourcePath,
                                                         packageLockJson, currentDepth, options, reg)),
                   processed |-> st.processed \cup {depId}]
       IN WalkEntries(next, Tail(entries), packageLockJson, sourcePath, currentDepth, options, reg)

\* the outer loop of processTransitiveDependencies.  The array is iterated
\* while it grows: position i runs to the current end.
RECURSIVE WalkLevel(_, _, _, _, _, _, _)
WalkLevel(st, i, packageLockJson, sourcePath, currentDepth, options, reg) ==
  IF i > Len(st.nodes) THEN st
  ELSE WalkLevel(
         IF st.nodes[i].depth = currentDepth - 1
         THEN WalkEntries(st, findTransitiveDependencies(st.nodes[i].name, packageLockJson),
                          packageLockJson, sourcePath, currentDepth, options, reg)
         ELSE st,
         i + 1, packageLockJson, sourcePath, currentDepth, options, reg)

\* DependencyScanner.processTransitiveDependencies
RECURSIVE processTransitiveDependencies(_, _, _, _, _, _, _)
processTransitiveDependencies(allDependencies, packageLockJson, sourcePath, currentDepth, maxDepth, options, reg) ==
  IF currentDepth >= maxDepth THEN allDependencies
  ELSE LET after == WalkLevel([nodes |-> allDependencies, processed |-> {}], 1,
                              packageLockJson, sourcePath, currentDepth, options, reg).nodes
       IN IF currentDepth + 1 < maxDepth
          THEN processTransitiveDependencies(after, packageLockJson, sourcePath, currentDepth + 1,
                                             maxDepth, options, reg)
          ELSE after

\* options.maxDepth || 3
DefaultMaxDepth == 3

EffectiveMaxDepth(options) == IF options.maxDepth = 0 THEN DefaultMaxDepth ELSE options.maxDepth

\* DependencyScanner.parseDependenciesWithDepth
parseDependenciesWithDepth(packageJson, packageLockJson, sourcePath, options, reg) ==
  LET direct == DirectNodes(1, packageJson, packageLockJson, sourcePath, options, reg)
      maxDepth == EffectiveMaxDepth(options)
  IN IF maxDepth > 1 /\ packageLockJson.exists
     THEN processTransitiveDependencies(direct, packageLockJson, sourcePath, 1, maxDepth, options, reg)
     ELSE direct

(* ------------------------------------------------------------------ *)
(* DependencyScanner: edges                                            *)
(* ------------------------------------------------------------------ *)

LEGACY_ROOT == <<"legacy-root">>

\* workspaceNodes.find(n => n.name === name): its index, 0 when there is none
FindByName(workspaceNodes, name) == FirstIndexWhere(workspaceNodes, LAMBDA n : n.name = name)

\* the edges of one packages entry: the inner loop of buildEdgesFromPackageLock
PackageEntryEdges(packageInfo, workspaceNodes) ==
  LET packageName == IF packageInfo.name # UNDEF /\ packageInfo.name # <<>>
                     THEN packageInfo.name ELSE PathBasename(packageInfo.path)
      s == FindByName(workspaceNodes, packageName)
      deps == packageInfo.dependencies
      hit == IF s = 0 THEN <<>>
             ELSE SelectSeq([i \in 1..Len(deps) |-> i],
                            LAMBDA i : FindByName(workspaceNodes, deps[i].name) # 0)
  IN [j \in 1..Len(hit) |->
        LET sourceNode == workspaceNodes[s]
            targetNode == workspaceNodes[FindByName(workspaceNodes, deps[hit[j]].name)]
        IN [id |-> sourceNode.id \o <<"->">> \o targetNode.id,
            source |-> sourceNode.id,
            target |-> targetNode.id,
            type |-> "transitive",
            version |-> deps[hit[j]].version,
            color |-> "#999",
            width |-> 1]]

RECURSIVE PackagesEdges(_, _)
PackagesEdges(packages, workspaceNodes) ==
  IF Len(packages) = 0 THEN <<>>
  ELSE (IF Head(packages).path = <<>> \/ Len(Head(packages).dependencies) = 0 THEN <<>>
        ELSE PackageEntryEdges(Head(packages), workspaceNodes))
       \o PackagesEdges(Tail(packages), workspaceNodes)

\* DependencyScanner.processLegacyDependencies: the edges it pushes
RECURSIVE processLegacyDependencies(_, _)
processLegacyDependencies(dependencies, workspaceNodes) ==
  IF Len(dependencies) = 0 THEN <<>>
  ELSE LET depInfo == Head(dependencies)
           t == FindByName(workspaceNodes, depInfo.name)
       IN (IF t # 0
           THEN <<[id |-> <<"legacy-">> \o depInfo.name,
                   source |-> LEGACY_ROOT,
                   target |-> workspaceNodes[t].id,
                   type |-> "transitive",
                   version |-> depInfo.version,
                   color |-> "#999",
                   width |-> 1]>>
           ELSE <<>>)
          \o processLegacyDependencies(depInfo.dependencies, workspaceNodes)
          \o processLegacyDependencies(Tail(dependencies), workspaceNodes)

\* DependencyScanner.buildEdgesFromPackageLock
buildEdgesFromPackageLock(packageLockJson, workspaceNodes) ==
  PackagesEdges(packageLockJson.packages, workspaceNodes)
  \o processLegacyDependencies(packageLockJson.dependencies, workspaceNodes)

\* DependencyScanner.getEdgeColor
getEdgeColor(type) ==
  CASE type = "dependency" -> "#4CAF50"
    [] type = "devDependency" -> "#FF9800"
    [] type = "peerDependency" -> "#2196F3"
    [] type = "optionalDependency" -> "#9C27B0"
    [] OTHER -> "#999"

\* `root-${path.basename(sourcePath)}`
RootId(sourcePath) == <<"root-">> \o Basename(sourcePath)

\* the edges of one manifest section: the inner loop of buildBasicEdges
BasicSectionEdges(deps, type, rootId, workspaceNodes) ==
  LET hit == SelectSeq([i \in 1..Len(deps) |-> i],
                       LAMBDA i : FindByName(workspaceNodes, deps[i].name) # 0)
  IN [j \in 1..Len(hit) |->
        LET targetNode == workspaceNodes[FindByName(workspaceNodes, deps[hit[j]].name)]
        IN [id |-> rootId \o <<"->">> \o targetNode.id,
            source |-> rootId,
            target |-> targetNode.id,
            type |-> "direct",
            version |-> deps[hit[j]].version,
            color |-> getEdgeColor(type),
            width |-> 2]]

\* DependencyScanner.buildBasicEdges
RECURSIVE BasicEdgesFrom(_, _, _, _)
BasicEdgesFrom(k, packageJson, rootId, workspaceNodes) ==
  IF k > Len(SectionKeys) THEN <<>>
  ELSE BasicSectionEdges(SectionOf(packageJson, SectionKeys[k]), SectionType(SectionKeys[k]),
                         rootId, workspaceNodes)
       \o BasicEdgesFrom(k + 1, packageJson, rootId, workspaceNodes)

buildBasicEdges(packageJson, sourcePath, workspaceNodes) ==
  BasicEdgesFrom(1, packageJson, RootId(sourcePath), workspaceNodes)

\* the edges buildDependencyGraph collects for one workspace
WorkspaceEdges(workspace) ==
  IF workspace.packageLockJson.exists
  THEN buildEdgesFromPackageLock(workspace.packageLockJson, workspace.dependencies)
  ELSE buildBasicEdges(workspace.packageJson, workspace.root, workspace.dependencies)

(* ------------------------------------------------------------------ *)
(* DependencyScanner: conflicts and depths                             *)
(* ------------------------------------------------------------------ *)

\* the positions of the first node of each name, in Map insertion order
GroupHeads(nodes) ==
  SelectSeq([i \in 1..Len(nodes) |-> i],
            LAMBDA i : \A j \in 1..(i - 1) : nodes[j].name # nodes[i].name)

\* whether the group of nodes[i] is a conflict: several nodes, several versions
InConflictGroup(nodes, i) ==
  \E j \in 1..Len(nodes) : nodes[j].name = nodes[i].name /\ nodes[j].version # nodes[i].version

\* DependencyScanner.processNodesAndConflicts.  The node objects are mutated in
\* place: nodes is the list after the pass, uniqueNodes and conflictNodes are
\* positions in it (conflictNodes group by group, as the code pushes them).
ConflictOrder(nodes) ==
  LET heads == GroupHeads(nodes)
      GroupOf(h) == SelectSeq([i \in 1..Len(nodes) |-> i],
                              LAMBDA i : nodes[i].name = nodes[h].name /\ InConflictGroup(nodes, h))
      F[k \in 0..Len(heads)] == IF k = 0 THEN <<>> ELSE F[k - 1] \o GroupOf(heads[k])
  IN F[Len(heads)]

\* a conflict pass that keeps the last node of each name instead of the first
processNodesKeepLast(nodes) ==
  [nodes |-> [i \in 1..Len(nodes) |->
                IF InConflictGroup(nodes, i)
                THEN [nodes[i] EXCEPT !.status = "conflict", !.color = getStatusColor("conflict")]
                ELSE nodes[i]],
   uniqueNodes |-> SelectSeq([i \in 1..Len(nodes) |-> i],
                             LAMBDA i : \A j \in (i + 1)..Len(nodes) : nodes[j].name # nodes[i].name),
   conflictNodes |-> ConflictOrder(nodes)]

processNodesAndConflicts(nodes) ==
  [nodes |-> [i \in 1..Len(nodes) |->
                IF InConflictGroup(nodes, i)
                THEN [nodes[i] EXCEPT !.status = "conflict", !.color = getStatusColor("conflict")]
                ELSE nodes[i]],
   uniqueNodes |-> GroupHeads(nodes),
   conflictNodes |-> ConflictOrder(nodes)]

\* depthMap.get(id), -1 for undefined
DepthGet(depthMap, id) == IF id \in DOMAIN depthMap THEN depthMap[id] ELSE -1

\* the loop over the children of one dequeued node: st = [queue, depthMap]
RECURSIVE RelaxChildren(_, _, _)
RelaxChildren(st, children, newDepth) ==
  IF Len(children) = 0 THEN st
  ELSE LET childId == Head(children)
           currentDepth == DepthGet(st.depthMap, childId)
       IN RelaxChildren(
            IF currentDepth = -1 \/ newDepth < currentDepth
            THEN [queue |-> Append(st.queue, [nodeId |-> childId, depth |-> newDepth]),
                  depthMap |-> (childId :> newDepth) @@ st.depthMap]
            ELSE st,
            Tail(children), newDepth)

\* the while loop of calculateNodeDepths
RECURSIVE BfsLoop(_, _, _, _)
BfsLoop(queue, visited, depthMap, edges) ==
  IF Len(queue) = 0 THEN depthMap
  ELSE LET item == Head(queue)
           childEdges == SelectSeq(edges, LAMBDA e : e.source = item.nodeId)
           children == [i \in 1..Len(childEdges) |-> childEdges[i].target]
           st == RelaxChildren([queue |-> Tail(queue), depthMap |-> depthMap], children, item.depth + 1)
       IN IF item.nodeId \in visited THEN BfsLoop(Tail(queue), visited, depthMap, edges)
          ELSE BfsLoop(st.queue, visited \cup {item.nodeId}, st.depthMap, edges)

\* a depth pass that starts the search at the first root only
calculateNodeDepthsFirstRoot(nodes, edges) ==
  LET allTargets == {edges[i].target : i \in 1..Len(edges)}
      rootNodes == SelectSeq(nodes, LAMBDA n : n.id \notin allTargets)
      queue == [i \in 1..(IF Len(rootNodes) > 0 THEN 1 ELSE 0) |-> [nodeId |-> rootNodes[i].id, depth |-> 0]]
      rootIds == {queue[i].nodeId : i \in 1..Len(queue)}
      depthMap == BfsLoop(queue, {}, [id \in rootIds |-> 0], edges)
  IN [i \in 1..Len(nodes) |->
        IF DepthGet(depthMap, nodes[i].id) > 0 THEN depthMap[nodes[i].id] ELSE 0]

\* DependencyScanner.calculateNodeDepths: the depth it gives each node
calculateNodeDepths(nodes, edges) ==
  LET allTargets == {edges[i].target : i \in 1..Len(edges)}
      rootNodes == SelectSeq(nodes, LAMBDA n : n.id \notin allTargets)
      queue == [i \in 1..Len(rootNodes) |-> [nodeId |-> rootNodes[i].id, depth |-> 0]]
      rootIds == {rootNodes[i].id : i \in 1..Len(rootNodes)}
      depthMap == BfsLoop(queue, {}, [id \in rootIds |-> 0], edges)
  IN [i \in 1..Len(nodes) |->
        IF DepthGet(depthMap, nodes[i].id) > 0 THEN depthMap[nodes[i].id] ELSE 0]

(* ------------------------------------------------------------------ *)
(* Inputs of a scan: what the collaborators return                     *)
(* ------------------------------------------------------------------ *)

V10 == <<"1", ".", "0">>
V20 == <<"2", ".", "0">>
V10a == <<"1", ".", "0", "-", "a">>
R10 == <<"^", "1", ".", "0">>

\* package names, in the key order of the generated files
NameList == << <<"p">>, <<"q">> >>
PkgNames == {NameList[i] : i \in 1..Len(NameList)}

\* the version strings a manifest declares, a lockfile resolves, a lockfile
\* entry requires of its dependencies, and the registry answers (UNDEF: the
\* lookup fails or yields no version)
DeclaredVersions == {V10, V10a}
LockVersions == {V10, V20}
RequiredVersions == {R10}
RegistryAnswers == {UNDEF, V10, V20}

\* workspace folders, as path segments
RootList == << << <<"w">>, <<"app">> >>, << <<"x">>, <<"lib">> >> >>

Min(a, b) == IF a < b THEN a ELSE b

\* key-ordered maps over the names, at most n keys, values drawn from vals
RECURSIVE EntrySeqsFrom(_, _, _)
EntrySeqsFrom(k, n, vals) ==
  IF k > Len(NameList) \/ n = 0 THEN {<<>>}
  ELSE EntrySeqsFrom(k + 1, n, vals)
       \cup {<<[name |-> NameList[k], version |-> v]>> \o rest :
               v \in vals, rest \in EntrySeqsFrom(k + 1, n - 1, vals)}

EntrySeqs(n, vals) == EntrySeqsFrom(1, n, vals)

NoManifest == [exists |-> FALSE, dependencies |-> <<>>, devDependencies |-> <<>>,
               peerDependencies |-> <<>>, optionalDependencies |-> <<>>]

\* readable manifests declaring at most n packages: any of the names as
\* dependencies, the last name as a devDependency
Manifests(n) ==
  {m \in [exists : {TRUE},
          dependencies : EntrySeqs(n, DeclaredVersions),
          devDependencies : {<<>>, <<[name |-> NameList[Len(NameList)], version |-> V10]>>},
          peerDependencies : {<<>>},
          optionalDependencies : {<<>>}] :
     Len(m.dependencies) + Len(m.devDependencies) <= n}

NoLock == [exists |-> FALSE, packages |-> <<>>, dependencies |-> <<>>]

\* the packages entries of one name: node_modules/<name>, with or without a
\* name field, with at most one dependency
PackageEntries(name) ==
  {e \in [path : {<<"node_modules/">> \o name}, name : {UNDEF, name}, version : LockVersions,
          dependencies : EntrySeqs(1, RequiredVersions)] :
     e.name = UNDEF \/ Len(e.dependencies) > 0}

\* packages entries for the first n names
RECURSIVE PackageSeqs(_, _)
PackageSeqs(k, n) ==
  IF k > Len(NameList) \/ k > n THEN {<<>>}
  ELSE PackageSeqs(k + 1, n)
       \cup {<<e>> \o rest : e \in PackageEntries(NameList[k]), rest \in PackageSeqs(k + 1, n)}

\* the legacy entries of one name, nested one level
LegacyEntries(name) ==
  {[name |-> name, version |-> v,
    dependencies |-> [i \in 1..Len(d) |->
                        [name |-> d[i].name, version |-> d[i].version, dependencies |-> <<>>]]] :
     v \in LockVersions, d \in EntrySeqs(1, {V20})}

\* legacy entries for the first n names
RECURSIVE LegacySeqs(_, _)
LegacySeqs(k, n) ==
  IF k > Len(NameList) \/ k > n THEN {<<>>}
  ELSE LegacySeqs(k + 1, n)
       \cup {<<e>> \o rest : e \in LegacyEntries(NameList[k]), rest \in LegacySeqs(k + 1, n)}

\* the lockfiles with at most n entries: none, npm v7+ or legacy
Lockfiles(n) ==
  {NoLock}
  \cup {[exists |-> TRUE, packages |-> ps, dependencies |-> <<>>] : ps \in PackageSeqs(1, n)}
  \cup {[exists |-> TRUE, packages |-> <<>>, dependencies |-> ls] : ls \in LegacySeqs(1, n)}

\* what the files of one folder of a k-folder workspace may be
Budget(max, k) == IF max + 1 - k > 0 THEN max + 1 - k ELSE 0

FolderFiles(k) ==
  {[manifest |-> NoManifest, lockfile |-> NoLock]}
  \cup [manifest : Manifests(Budget(MaxDeclared, k)), lockfile : Lockfiles(Budget(MaxLockEntries, k))]

\* options.maxDepth: negative, 0, and the least depths that differ
MaxDepthChoices == {-1, 0, 1, 2}

ScanOptions ==
  [maxDepth : MaxDepthChoices,
   includeDevDependencies : BOOLEAN,
   includePeerDependencies : {TRUE},
   includeOptionalDependencies : {TRUE},
   enableVersionChecking : BOOLEAN]

(* ------------------------------------------------------------------ *)
(* A workspace wide enough for several registry batches                *)
(* ------------------------------------------------------------------ *)

\* checkOutdatedPackages: const batchSize = 10
batchSize == 10

\* nodes beyond one full batch in the wide workspace
MaxExtra == 1

DigitTok == <<"0", "1", "2", "3", "4", "5", "6", "7", "8", "9">>

RECURSIVE NumStr(_)
NumStr(i) == IF i < 10 THEN <<DigitTok[i + 1]>> ELSE NumStr(i \div 10) \o <<DigitTok[(i % 10) + 1]>>

WideName(i) == <<"n">> \o NumStr(i)

\* one folder without lockfile whose manifest declares n packages at 1.0
WideManifest(n) ==
  [exists |-> TRUE,
   dependencies |-> [i \in 1..n |-> [name |-> WideName(i), version |-> V10]],
   devDependencies |-> <<>>, peerDependencies |-> <<>>, optionalDependencies |-> <<>>]

\* the registry knows 2.0 of every package, but for a set of failing lookups
WideRegistries(n) ==
  {[nm \in {WideName(i) : i \in 1..n} |-> IF nm \in F THEN UNDEF ELSE V20] :
     F \in SUBSET {WideName(1), WideName(n)}}

(* ------------------------------------------------------------------ *)
(* A workspace whose lockfile chains three packages                    *)
(* ------------------------------------------------------------------ *)

DeepNames == << <<"a">>, <<"b">>, <<"c">> >>

\* the subsequences of a sequence
RECURSIVE SubSeqs(_)
SubSeqs(seq) ==
  IF Len(seq) = 0 THEN {<<>>}
  ELSE LET rest == SubSeqs(Tail(seq))
       IN rest \cup {<<Head(seq)>> \o r : r \in rest}

\* manifests declaring some of the three packages at 1.0
DeepManifests ==
  {[exists |-> TRUE,
    dependencies |-> [i \in 1..Len(names) |-> [name |-> names[i], version |-> V10]],
    devDependencies |-> <<>>, peerDependencies |-> <<>>, optionalDependencies |-> <<>>] :
     names \in SubSeqs(DeepNames) \ {<<>>}}

\* how the entries of one lockfile state what they require: the exact
\* version or a range
DeepRequired == {V10, R10}

\* the packages entry of a name that requires the others named
DeepEntry(name, others, required) ==
  [path |-> <<"node_modules/">> \o name, name |-> name, version |-> V10,
   dependencies |-> [i \in 1..Len(others) |-> [name |-> others[i], version |-> required]]]

\* the entries of the names from position k on that require something
RECURSIVE DeepPackages(_, _)
DeepPackages(k, required) ==
  IF k > Len(DeepNames) THEN {<<>>}
  ELSE LET others == SelectSeq(DeepNames, LAMBDA n : n # DeepNames[k])
       IN {(IF Len(req) = 0 THEN <<>> ELSE <<DeepEntry(DeepNames[k], req, required)>>) \o rest :
             req \in SubSeqs(others), rest \in DeepPackages(k + 1, required)}

DeepLockfiles ==
  {[exists |-> TRUE, packages |-> ps, dependencies |-> <<>>] :
     ps \in UNION {DeepPackages(1, required) : required \in DeepRequired}}

(* ------------------------------------------------------------------ *)
(* The scan as a state machine                                         *)
(* ------------------------------------------------------------------ *)

VARIABLES
  pc,            \* where scanWorkspace is
  roots,         \* Utils.getWorkspaceRoots()
  manifests,     \* what readJsonFile answers for each root's package.json
  lockfiles,     \* and for its package-lock.json
  options,       \* the ScanOptions of the call
  registry,      \* the latest version the registry answers for each package
                 \* name, UNDEF when the lookup fails or yields none
  rootIdx,       \* the loop position of scanWorkspace
  workspaces,    \* the WorkspaceInfo records collected
  allNodes,      \* the node objects of buildDependencyGraph
  allEdges,
  uniqueNodes,   \* positions in allNodes: the objects of the uniqueNodes array
  conflictNodes, \* positions in allNodes: the objects of the conflictNodes array
  batchStart,    \* checkOutdatedPackages: first position of the current batch
  issued,        \* whether the lookups of the current batch were issued
  pending,       \* positions in uniqueNodes whose lookup is in flight
  lookups,       \* registry lookups issued so far
  graph          \* the DependencyGraph returned

VARIABLES
  firstGraph,    \* the graph the first call returned
  verA,          \* version strings given to Utils.compareVersions and
  verB,          \* Utils.getUpdateType
  verC,
  compared,      \* what Utils.compareVersions returned for them
  updateType,    \* what Utils.getUpdateType(verA, verB) returned
  idArgs,        \* two (name, version, source) given to Utils.generateDependencyId
  ids,           \* the two ids it returned
  data,          \* webview: this.data, NONE for null
  filteredData,  \* webview: this.filteredData, NONE for null
  filters,       \* webview: this.filters
  threw          \* webview: whether the last event handler ended in a TypeError

versionVars == <<verA, verB, verC, compared, updateType>>

idVars == <<idArgs, ids>>

webviewVars == <<data, filteredData, filters, threw>>

\* what the scan neither reads nor writes
aux == <<run, firstGraph, versionVars, idVars, webviewVars>>

vars == <<pc, roots, manifests, lockfiles, options, registry, rootIdx, workspaces, allNodes,
          allEdges, uniqueNodes, conflictNodes, batchStart, issued, pending, lookups, graph, aux>>

inputs == <<roots, manifests, lockfiles, options, registry>>

NoGraph == [nodes |-> <<>>, edges |-> <<>>,
            metadata |-> [totalPackages |-> 0, totalDependencies |-> 0, conflicts |-> 0,
                          vulnerabilities |-> 0, outdated |-> 0, workspaceRoots |-> <<>>]]

EntryNames(entries) == {entries[i].name : i \in 1..Len(entries)}

\* the package names a node can be created for: declared in a manifest or
\* required by a lockfile entry
MentionedNames(ms, ls) ==
  UNION {EntryNames(ms[i].dependencies) \cup EntryNames(ms[i].devDependencies)
         \cup UNION {EntryNames(ls[i].packages[j].dependencies) : j \in 1..Len(ls[i].packages)}
         \cup UNION {EntryNames(ls[i].dependencies[j].dependencies) : j \in 1..Len(ls[i].dependencies)} :
         i \in 1..Len(ms)}

InitScanner ==
  /\ pc = "start"
  /\ rootIdx = 0
  /\ workspaces = <<>>
  /\ allNodes = <<>>
  /\ allEdges = <<>>
  /\ uniqueNodes = <<>>
  /\ conflictNodes = <<>>
  /\ batchStart = 1
  /\ issued = FALSE
  /\ pending = {}
  /\ lookups = 0
  /\ graph = NoGraph

\* small workspaces: every combination of the files, the options and the
\* registry answers (a package no file mentions is never looked up)
InitSmall ==
  /\ \E k \in 0..Len(RootList) :
       /\ roots = SubSeq(RootList, 1, k)
       /\ \E files \in [1..k -> FolderFiles(k)] :
            /\ manifests = [i \in 1..k |-> files[i].manifest]
            /\ lockfiles = [i \in 1..k |-> files[i].lockfile]
  /\ options \in ScanOptions
  /\ registry \in [PkgNames -> RegistryAnswers]
  /\ \A n \in PkgNames \ MentionedNames(manifests, lockfiles) : registry[n] = UNDEF

\* the wide workspace, with the default options but for enableVersionChecking
InitWide ==
  /\ \E n \in (batchSize + 1)..(batchSize + MaxExtra) :
       /\ roots = <<RootList[1]>>
       /\ manifests = <<WideManifest(n)>>
       /\ lockfiles = <<NoLock>>
       /\ registry \in WideRegistries(n)
  /\ options \in {o \in ScanOptions : o.maxDepth = 0 /\ o.includeDevDependencies}

\* nothing returned yet; a returned value r is <<r>>
NONE == <<>>

\* the first call of scanWorkspace
InitRun ==
  /\ run = 1
  /\ firstGraph = NoGraph

\* no version string is under comparison
IdleVersions ==
  /\ verA = <<>>
  /\ verB = <<>>
  /\ verC = <<>>
  /\ compared = NONE
  /\ updateType = NONE

\* no id is asked for outside a scan
IdleIds ==
  /\ idArgs = <<>>
  /\ ids = NONE

\* the DependencyGraphVisualization as constructed: no data, the default filters
DefaultFilters ==
  [maxDepth |-> 3, showDevDependencies |-> TRUE, showPeerDependencies |-> TRUE,
   showOptionalDependencies |-> TRUE, showOutdated |-> TRUE, showConflicts |-> TRUE]

InitWebview ==
  /\ data = NONE
  /\ filteredData = NONE
  /\ filters = DefaultFilters
  /\ threw = FALSE

\* during a scan nothing else runs
InitAux == InitRun /\ IdleVersions /\ IdleIds /\ InitWebview

\* the workspace of chained packages, at every maxDepth, without version
\* checking at creation and with a registry that knows none of them
InitDeep ==
  /\ roots = <<RootList[1]>>
  /\ \E m \in DeepManifests : manifests = <<m>>
  /\ \E l \in DeepLockfiles : lockfiles = <<l>>
  /\ registry = [nm \in {DeepNames[i] : i \in 1..Len(DeepNames)} |-> UNDEF]
  /\ options \in {o \in ScanOptions : o.includeDevDependencies /\ ~o.enableVersionChecking}

Init == InitScanner /\ InitAux /\ (InitSmall \/ InitWide \/ InitDeep)

\* scanWorkspace up to its loop: no workspace folder is an error
ScanWorkspace ==
  /\ pc = "start"
  /\ IF Len(roots) = 0 THEN pc' = "failed" ELSE pc' = "scanRoots"
  /\ rootIdx' = 1
  /\ UNCHANGED <<aux, inputs, workspaces, allNodes, allEdges, uniqueNodes, conflictNodes,
                 batchStart, issued, pending, lookups, graph>>

\* a scanWorkspaceRoot that also gives up on a root without lockfile
scanWorkspaceRootNeedsLock(rootPath, packageJson, packageLockJson, opts, reg) ==
  IF ~packageJson.exists \/ ~packageLockJson.exists THEN <<>>
  ELSE <<[root |-> rootPath, packageJson |-> packageJson, packageLockJson |-> packageLockJson,
          dependencies |-> parseDependenciesWithDepth(packageJson, packageLockJson, rootPath, opts, reg)]>>

\* scanWorkspaceRoot: null for an unreadable manifest, else the WorkspaceInfo
scanWorkspaceRoot(rootPath, packageJson, packageLockJson, opts, reg) ==
  IF ~packageJson.exists THEN <<>>
  ELSE <<[root |-> rootPath, packageJson |-> packageJson, packageLockJson |-> packageLockJson,
          dependencies |-> parseDependenciesWithDepth(packageJson, packageLockJson, rootPath, opts, reg)]>>

\* the loop body of scanWorkspace: scanWorkspaceRoot of the next root and the
\* push of its result; createDependencyNode asks the registry once per node
ScanWorkspaceRoot ==
  /\ pc = "scanRoots"
  /\ rootIdx <= Len(roots)
  /\ LET workspaceInfo == scanWorkspaceRoot(roots[rootIdx], manifests[rootIdx], lockfiles[rootIdx],
                                            options, registry)
     IN /\ workspaces' = workspaces \o workspaceInfo
        /\ lookups' = lookups + (IF Len(workspaceInfo) > 0 /\ options.enableVersionChecking
                                 THEN Len(workspaceInfo[1].dependencies) ELSE 0)
  /\ rootIdx' = rootIdx + 1
  /\ UNCHANGED <<aux, pc, inputs, allNodes, allEdges, uniqueNodes, conflictNodes,
                 batchStart, issued, pending, graph>>

\* buildDependencyGraph: the loop that collects the nodes and edges of the workspaces
RECURSIVE CollectNodes(_)
CollectNodes(ws) == IF Len(ws) = 0 THEN <<>> ELSE Head(ws).dependencies \o CollectNodes(Tail(ws))

RECURSIVE CollectEdges(_)
CollectEdges(ws) == IF Len(ws) = 0 THEN <<>> ELSE WorkspaceEdges(Head(ws)) \o CollectEdges(Tail(ws))

BuildDependencyGraph ==
  /\ pc = "scanRoots"
  /\ rootIdx > Len(roots)
  /\ allNodes' = CollectNodes(workspaces)
  /\ allEdges' = CollectEdges(workspaces)
  /\ pc' = "conflicts"
  /\ UNCHANGED <<aux, inputs, rootIdx, workspaces, uniqueNodes, conflictNodes,
                 batchStart, issued, pending, lookups, graph>>

\* buildDependencyGraph: processNodesAndConflicts
ProcessNodesAndConflicts ==
  /\ pc = "conflicts"
  /\ LET r == processNodesAndConflicts(allNodes)
     IN /\ allNodes' = r.nodes
        /\ uniqueNodes' = r.uniqueNodes
        /\ conflictNodes' = r.conflictNodes
  /\ pc' = "depths"
  /\ UNCHANGED <<aux, inputs, rootIdx, workspaces, allEdges, batchStart, issued, pending, lookups, graph>>

\* the objects of the uniqueNodes array
UniqueNodeList == [k \in 1..Len(uniqueNodes) |-> allNodes[uniqueNodes[k]]]

\* buildDependencyGraph: calculateNodeDepths, which sets depth and nothing else
CalculateNodeDepths ==
  /\ pc = "depths"
  /\ LET d == calculateNodeDepths(UniqueNodeList, allEdges)
     IN allNodes' = [i \in 1..Len(allNodes) |->
                       IF \E k \in 1..Len(uniqueNodes) : uniqueNodes[k] = i
                       THEN [allNodes[i] EXCEPT
                               !.depth = d[CHOOSE k \in 1..Len(uniqueNodes) : uniqueNodes[k] = i]]
                       ELSE allNodes[i]]
  /\ pc' = "outdated"
  /\ batchStart' = 1
  /\ issued' = FALSE
  /\ UNCHANGED <<aux, inputs, rootIdx, workspaces, allEdges, uniqueNodes, conflictNodes, pending,
                 lookups, graph>>

\* a batch that takes every node from batchStart on
BatchPositionsToEnd == {k \in 1..Len(uniqueNodes) : batchStart <= k}

\* the positions of the batch that starts at batchStart
BatchPositions == {k \in 1..Len(uniqueNodes) : batchStart <= k /\ k < batchStart + batchSize}

\* a callback that asks the registry about conflict nodes as well
NeedsLookupAlways(node) == node.status \in {"conflict", "outdated", "up-to-date"}

\* the callback of batch.map up to its await: a conflict node is skipped
NeedsLookup(node) == node.status # "conflict"

\* checkOutdatedPackages: batch.map starts the callback of every node of the
\* batch; a conflict node returns at once, the others await getVersionInfo
IssueBatch ==
  /\ pc = "outdated"
  /\ ~issued
  /\ batchStart <= Len(uniqueNodes)
  /\ pending' = {k \in BatchPositions : NeedsLookup(allNodes[uniqueNodes[k]])}
  /\ lookups' = lookups + Cardinality(pending')
  /\ issued' = TRUE
  /\ UNCHANGED <<aux, pc, inputs, rootIdx, workspaces, allNodes, allEdges, uniqueNodes, conflictNodes,
                 batchStart, graph>>

\* a callback that marks the node outdated and leaves its color
ApplyVersionInfoKeepColor(node, versionInfo) ==
  IF versionInfo.isOutdated
  THEN [node EXCEPT !.status = "outdated", !.latestVersion = versionInfo.latest]
  ELSE node

\* a callback that also writes the version the registry service was asked about
ApplyVersionInfoAndVersion(node, versionInfo) ==
  IF versionInfo.isOutdated
  THEN [node EXCEPT !.status = "outdated",
                    !.color = getStatusColor("outdated"),
                    !.latestVersion = versionInfo.latest,
                    !.version = versionInfo.latest]
  ELSE node

\* the callback of batch.map after its await: what it does to its node
ApplyVersionInfo(node, versionInfo) ==
  IF versionInfo.isOutdated
  THEN [node EXCEPT !.status = "outdated",
                    !.color = getStatusColor("outdated"),
                    !.latestVersion = versionInfo.latest]
  ELSE node

\* one lookup of the batch completes: the rest of the callback runs
CompleteLookup ==
  /\ pc = "outdated"
  /\ \E k \in pending :
       LET i == uniqueNodes[k]
           node == allNodes[i]
       IN /\ allNodes' = [allNodes EXCEPT
                            ![i] = ApplyVersionInfo(node, getVersionInfo(node.version, registry[node.name]))]
          /\ pending' = pending \ {k}
  /\ UNCHANGED <<aux, pc, inputs, rootIdx, workspaces, allEdges, uniqueNodes, conflictNodes,
                 batchStart, issued, lookups, graph>>

\* a batch loop whose pause never ends
EndBatchNeverResumes ==
  /\ pc = "outdated"
  /\ issued
  /\ pending = {}
  /\ UNCHANGED <<aux, pc, inputs, rootIdx, workspaces, allNodes, allEdges, uniqueNodes, conflictNodes,
                 batchStart, issued, pending, lookups, graph>>

\* Promise.all of the batch has resolved and the pause has passed
EndBatch ==
  /\ pc = "outdated"
  /\ issued
  /\ pending = {}
  /\ batchStart' = batchStart + batchSize
  /\ issued' = FALSE
  /\ UNCHANGED <<aux, pc, inputs, rootIdx, workspaces, allNodes, allEdges, uniqueNodes, conflictNodes,
                 pending, lookups, graph>>

\* |{k : nodes[k].status = status}|
CountStatus(nodes, status) == Cardinality({k \in 1..Len(nodes) : nodes[k].status = status})

\* a metadata that counts the nodes collected instead of the nodes returned
GraphMetadataAllNodes(uniqueList, edges, conflictList, ws) ==
  [totalPackages |-> Len(CollectNodes(ws)),
   totalDependencies |-> Len(edges),
   conflicts |-> Len(conflictList),
   vulnerabilities |-> CountStatus(uniqueList, "vulnerable"),
   outdated |-> CountStatus(uniqueList, "outdated"),
   workspaceRoots |-> [w \in 1..Len(ws) |-> ws[w].root]]

\* buildDependencyGraph: the metadata of the result
GraphMetadata(uniqueList, edges, conflictList, ws) ==
  [totalPackages |-> Len(uniqueList),
   totalDependencies |-> Len(edges),
   conflicts |-> Len(conflictList),
   vulnerabilities |-> CountStatus(uniqueList, "vulnerable"),
   outdated |-> CountStatus(uniqueList, "outdated"),
   workspaceRoots |-> [w \in 1..Len(ws) |-> ws[w].root]]

\* buildDependencyGraph after checkOutdatedPackages: the result
AssembleGraph ==
  /\ pc = "outdated"
  /\ ~issued
  /\ batchStart > Len(uniqueNodes)
  /\ graph' = [nodes |-> UniqueNodeList,
               edges |-> allEdges,
               metadata |-> GraphMetadata(UniqueNodeList, allEdges, conflictNodes, workspaces)]
  /\ pc' = "done"
  /\ UNCHANGED <<aux, inputs, rootIdx, workspaces, allNodes, allEdges, uniqueNodes, conflictNodes,
                 batchStart, issued, pending, lookups>>

Next ==
  \/ ScanWorkspace
  \/ ScanWorkspaceRoot
  \/ BuildDependencyGraph
  \/ ProcessNodesAndConflicts
  \/ CalculateNodeDepths
  \/ IssueBatch
  \/ CompleteLookup
  \/ EndBatch
  \/ AssembleGraph

Spec == Init /\ [][Next]_vars

(* ------------------------------------------------------------------ *)
(* A scan followed to its end                                          *)
(* ------------------------------------------------------------------ *)

\* one folder whose manifest declares one package and whose lockfile has one
\* legacy entry, nested or not; no walk, no version checking
LegacyWorld ==
  /\ Len(roots) = 1
  /\ manifests[1].exists
  /\ Len(manifests[1].dependencies) = 1
  /\ Len(manifests[1].devDependencies) = 0
  /\ Len(lockfiles[1].dependencies) = 1
  /\ options.maxDepth = 1
  /\ options.includeDevDependencies
  /\ ~options.enableVersionChecking
  /\ \A n \in PkgNames : registry[n] = UNDEF

\* one folder whose manifest declares a and whose lockfile has at most two
\* entries, those of two packages that require each other included; the walk
\* is off or one level deep, or runs to the default depth along a -> b
ChainWorld ==
  /\ EntryNames(manifests[1].dependencies) = {DeepNames[1]}
  /\ \/ /\ options.maxDepth \in {-1, 1, 2}
        /\ Len(lockfiles[1].packages) <= 2
     \/ /\ options.maxDepth = 0
        /\ Len(lockfiles[1].packages) = 1
        /\ lockfiles[1].packages[1].name = DeepNames[1]
        /\ Len(lockfiles[1].packages[1].dependencies) = 1

InitLive ==
  /\ InitScanner
  /\ InitAux
  /\ \/ InitSmall /\ Len(roots) = 0
     \/ InitSmall /\ LegacyWorld
     \/ InitDeep /\ ChainWorld

\* The scan is one async function: the step it is at is taken, every registry
\* lookup in flight completes, and the pause between batches ends.
LiveSpec == InitLive /\ [][Next]_vars /\ WF_vars(Next)

(* ------------------------------------------------------------------ *)
(* A second scan of the same workspace                                 *)
(* ------------------------------------------------------------------ *)

\* scanWorkspace is called again on the singleton scanner, with the same
\* options, files and registry.  The workspaces, nodes and edges are locals of
\* the call and start empty; what the registry service cached in the first
\* call is what the registry answers.
ScanAgain ==
  /\ pc = "done"
  /\ run = 1
  /\ run' = 2
  /\ firstGraph' = graph
  /\ pc' = "start"
  /\ rootIdx' = 0
  /\ workspaces' = <<>>
  /\ allNodes' = <<>>
  /\ allEdges' = <<>>
  /\ uniqueNodes' = <<>>
  /\ conflictNodes' = <<>>
  /\ batchStart' = 1
  /\ issued' = FALSE
  /\ pending' = {}
  /\ lookups' = 0
  /\ graph' = NoGraph
  /\ UNCHANGED <<inputs, versionVars, idVars, webviewVars>>

NextRescan == Next \/ ScanAgain

RescanSpec == Init /\ [][NextRescan]_vars

(* ------------------------------------------------------------------ *)
(* Utils.compareVersions and Utils.getUpdateType on their own          *)
(* ------------------------------------------------------------------ *)

\* version strings: with and without a leading v, of one to three
\* components, without suffix, with a suffix and with a dotted suffix
VersionCores ==
  {<<"1">>, <<"1", ".", "0">>, <<"1", ".", "1">>, <<"1", ".", "0", ".", "1">>, <<"2", ".", "0">>}

VersionSuffixes == {<<>>, <<"-", "a">>, <<"-", "a", ".", "1">>}

VersionStrings == {pre \o core \o suf : pre \in {<<>>, <<"v">>}, core \in VersionCores, suf \in VersionSuffixes}

\* no scan runs while the comparator is exercised
InitVersions ==
  /\ InitScanner
  /\ roots = <<>>
  /\ manifests = <<>>
  /\ lockfiles = <<>>
  /\ registry = <<>>
  /\ options \in {o \in ScanOptions : o.maxDepth = 0 /\ o.includeDevDependencies /\ o.enableVersionChecking}
  /\ InitRun
  /\ IdleIds
  /\ InitWebview
  /\ verA \in VersionStrings
  /\ verB \in VersionStrings
  /\ verC \in VersionStrings
  /\ compared = NONE
  /\ updateType = NONE

scanner == <<pc, roots, manifests, lockfiles, options, registry, rootIdx, workspaces, allNodes,
             allEdges, uniqueNodes, conflictNodes, batchStart, issued, pending, lookups, graph>>

\* Utils.compareVersions on the pairs of the three strings, and on the first
\* pair with a v or a V put before either string
CompareVersions ==
  /\ compared = NONE
  /\ compared' = <<[aa |-> compareVersions(verA, verA),
                  ab |-> compareVersions(verA, verB),
                  ba |-> compareVersions(verB, verA),
                  bc |-> compareVersions(verB, verC),
                  ac |-> compareVersions(verA, verC),
                  vab |-> compareVersions(<<"v">> \o verA, verB),
                  avb |-> compareVersions(verA, <<"v">> \o verB),
                  Vab |-> compareVersions(<<"V">> \o verA, verB),
                  aVb |-> compareVersions(verA, <<"V">> \o verB)]>>
  /\ UNCHANGED <<scanner, run, firstGraph, verA, verB, verC, updateType, idVars, webviewVars>>

\* Utils.getUpdateType(verA, verB)
GetUpdateType ==
  /\ updateType = NONE
  /\ updateType' = <<getUpdateType(verA, verB)>>
  /\ UNCHANGED <<scanner, run, firstGraph, verA, verB, verC, compared, idVars, webviewVars>>

NextVersions == CompareVersions \/ GetUpdateType

VersionSpec == InitVersions /\ [][NextVersions]_vars

(* ------------------------------------------------------------------ *)
(* Utils.generateDependencyId on its own                               *)
(* ------------------------------------------------------------------ *)

\* the scanner at rest, with nothing to scan
IdleScanner ==
  /\ InitScanner
  /\ roots = <<>>
  /\ manifests = <<>>
  /\ lockfiles = <<>>
  /\ registry = <<>>
  /\ options \in {o \in ScanOptions : o.maxDepth = 0 /\ o.includeDevDependencies /\ o.enableVersionChecking}

\* root paths for the ids: the workspace folders and a folder of another
\* parent with the last segment of the first
IdSources == {RootList[i] : i \in 1..Len(RootList)} \cup {<< <<"x">>, <<"app">> >>}

IdTriples == [name : PkgNames, version : LockVersions, source : IdSources]

InitIds ==
  /\ IdleScanner
  /\ InitRun
  /\ IdleVersions
  /\ InitWebview
  /\ idArgs \in [a : IdTriples, b : IdTriples]
  /\ ids = NONE

\* Utils.generateDependencyId of either triple
GenerateDependencyId ==
  /\ ids = NONE
  /\ ids' = <<[a |-> generateDependencyId(idArgs.a.name, idArgs.a.version, idArgs.a.source),
              b |-> generateDependencyId(idArgs.b.name, idArgs.b.version, idArgs.b.source)]>>
  /\ UNCHANGED <<scanner, run, firstGraph, versionVars, idArgs, webviewVars>>

NextIds == GenerateDependencyId

IdSpec == InitIds /\ [][NextIds]_vars

(* ------------------------------------------------------------------ *)
(* The webview: DependencyGraphVisualization                           *)
(*                                                                     *)
(* A graph is [nodes, edges]; a node carries what the filters read     *)
(* (id, depth, type, status), an edge its source and target ids        *)
(* (sourceId and targetId of the code, whether d3 has replaced the     *)
(* strings by node objects or not).  updateVisualization draws         *)
(* filteredData and writes neither data, filteredData nor filters.     *)
(* ------------------------------------------------------------------ *)

WebNodeA == [id |-> <<"a">>, depth |-> 0, type |-> "dependency", status |-> "up-to-date"]
WebNodeB == [id |-> <<"b">>, depth |-> 1, type |-> "devDependency", status |-> "outdated"]
WebNodeC == [id |-> <<"c">>, depth |-> 2, type |-> "dependency", status |-> "conflict"]

WebEdgeAB == [source |-> <<"a">>, target |-> <<"b">>]
WebEdgeBC == [source |-> <<"b">>, target |-> <<"c">>]

\* positions of the depth slider
SliderValues == {0, 1, 3}

\* the checkboxes of the panel that hide a node of these graphs
CheckboxNames == {"showDevDependencies", "showOutdated", "showConflicts"}

\* the node callback of applyFilters
NodePasses(node, f) ==
  /\ ~(node.depth > f.maxDepth)
  /\ ~(node.type = "devDependency" /\ ~f.showDevDependencies)
  /\ ~(node.type = "peerDependency" /\ ~f.showPeerDependencies)
  /\ ~(node.type = "optionalDependency" /\ ~f.showOptionalDependencies)
  /\ ~(node.status = "outdated" /\ ~f.showOutdated)
  /\ ~(node.status = "conflict" /\ ~f.showConflicts)

\* the edge callback of applyFilters, given the nodes it searches
EdgePasses(edge, nodes) ==
  /\ \E i \in 1..Len(nodes) : nodes[i].id = edge.source
  /\ \E i \in 1..Len(nodes) : nodes[i].id = edge.target

\* the graphs the extension posts: none, two or three nodes, any of the two
\* edges whose ends are nodes of the graph
WebGraphs ==
  {g \in [nodes : {<<>>, <<WebNodeA, WebNodeB>>, <<WebNodeA, WebNodeB, WebNodeC>>},
          edges : SubSeqs(<<WebEdgeAB, WebEdgeBC>>)] :
     \A e \in 1..Len(g.edges) : EdgePasses(g.edges[e], g.nodes)}

\* applyFilters.  The object literal is evaluated before it is assigned: the
\* edge callback reads this.filteredData!.nodes of the filteredData of before
\* the call, and throws a TypeError when that is null and there is an edge to
\* test; the assignment and updateVisualization are then not reached.
applyFilters(d, fd, f) ==
  IF d = NONE THEN [filteredData |-> fd, threw |-> FALSE]
  ELSE IF Len(d[1].edges) > 0 /\ fd = NONE THEN [filteredData |-> fd, threw |-> TRUE]
  ELSE [filteredData |-> <<[nodes |-> SelectSeq(d[1].nodes, LAMBDA n : NodePasses(n, f)),
                            edges |-> IF Len(d[1].edges) = 0 THEN <<>>
                                      ELSE SelectSeq(d[1].edges, LAMBDA e : EdgePasses(e, fd[1].nodes))]>>,
        threw |-> FALSE]

\* the message listener: updateData(graph)
UpdateData ==
  \E g \in WebGraphs :
    /\ data' = <<g>>
    /\ LET r == applyFilters(<<g>>, filteredData, filters)
       IN /\ filteredData' = r.filteredData
          /\ threw' = r.threw
    /\ UNCHANGED <<scanner, run, firstGraph, versionVars, idVars, filters>>

\* the input listener of the depth slider
DepthSlider ==
  \E v \in SliderValues :
    /\ filters' = [filters EXCEPT !.maxDepth = v]
    /\ LET r == applyFilters(data, filteredData, filters')
       IN /\ filteredData' = r.filteredData
          /\ threw' = r.threw
    /\ UNCHANGED <<scanner, run, firstGraph, versionVars, idVars, data>>

\* the change listener of a filter checkbox
FilterCheckbox ==
  \E name \in CheckboxNames, checked \in BOOLEAN :
    /\ filters' = [filters EXCEPT ![name] = checked]
    /\ LET r == applyFilters(data, filteredData, filters')
       IN /\ filteredData' = r.filteredData
          /\ threw' = r.threw
    /\ UNCHANGED <<scanner, run, firstGraph, versionVars, idVars, data>>

InitWebviewOnly ==
  /\ IdleScanner
  /\ InitRun
  /\ IdleVersions
  /\ IdleIds
  /\ InitWebview

NextWebview == UpdateData \/ DepthSlider \/ FilterCheckbox

WebviewSpec == InitWebviewOnly /\ [][NextWebview]_vars

(* ------------------------------------------------------------------ *)
(* Properties of the returned graph                                    *)
(* ------------------------------------------------------------------ *)

Returned == pc = "done"

NodeIds(nodes) == {nodes[k].id : k \in 1..Len(nodes)}

NodeNames(nodes) == {nodes[k].name : k \in 1..Len(nodes)}

\* C1: in every returned graph, metadata.totalPackages is the length of the
\* node list and metadata.totalDependencies the length of the edge list.
C1_MetadataTotals ==
  Returned => /\ graph.metadata.totalPackages = Len(graph.nodes)
              /\ graph.metadata.totalDependencies = Len(graph.edges)

\* a graph with edges whose node list is shorter than the nodes collected
C1_Witness ==
  /\ Returned
  /\ Len(graph.edges) > 0
  /\ Len(graph.nodes) > 0
  /\ Len(allNodes) > Len(graph.nodes)

\* C2: in every returned graph, metadata.conflicts is the number of returned
\* nodes whose status is conflict.
C2_ConflictCount ==
  Returned => graph.metadata.conflicts = CountStatus(graph.nodes, "conflict")

\* the first node of the name among the nodes collected
FirstSeen(name) == allNodes[FirstIndexWhere(allNodes, LAMBDA n : n.name = name)]

SeveralVersions(name) ==
  \E i, j \in 1..Len(allNodes) :
    /\ allNodes[i].name = name
    /\ allNodes[j].name = name
    /\ allNodes[i].version # allNodes[j].version

\* C3: the returned nodes are exactly the first-seen node of each package
\* name among the nodes of all roots; the node of a name that has several
\* versions has status conflict, and metadata.conflicts is then at least 1.
C3_OnePerName ==
  Returned =>
    /\ NodeNames(graph.nodes) = NodeNames(allNodes)
    /\ \A k, m \in 1..Len(graph.nodes) : graph.nodes[k].name = graph.nodes[m].name => k = m
    /\ \A k \in 1..Len(graph.nodes) :
         LET node == graph.nodes[k]
         IN /\ node = FirstSeen(node.name)
            /\ SeveralVersions(node.name) => /\ node.status = "conflict"
                                             /\ graph.metadata.conflicts >= 1

\* two roots bring the same package at two versions, and the one node
\* returned for it is a conflict
C3_Witness ==
  /\ Returned
  /\ Len(roots) = 2
  /\ \E i, j \in 1..Len(allNodes) :
       /\ allNodes[i].name = allNodes[j].name
       /\ allNodes[i].version # allNodes[j].version
       /\ allNodes[i].source # allNodes[j].source
       /\ \E k \in 1..Len(graph.nodes) :
            graph.nodes[k].name = allNodes[i].name /\ graph.nodes[k].status = "conflict"

\* C4: in every returned graph the target of every edge is the id of a
\* returned node.
C4_TargetsExist ==
  Returned => \A e \in 1..Len(graph.edges) : graph.edges[e].target \in NodeIds(graph.nodes)

\* C5: in every returned graph the source of every edge is the id of a
\* returned node or 'legacy-root', the id only the legacy lockfile path uses.
C5_SourcesExist ==
  Returned => \A e \in 1..Len(graph.edges) :
                \/ graph.edges[e].source \in NodeIds(graph.nodes)
                \/ graph.edges[e].source = LEGACY_ROOT

\* C6: no edge of a returned graph has its source as its target.
C6_NoSelfLoop ==
  Returned => \A e \in 1..Len(graph.edges) : graph.edges[e].source # graph.edges[e].target

ColorsMatch(nodes) == \A k \in 1..Len(nodes) : nodes[k].color = getStatusColor(nodes[k].status)

\* C7: at every point of the scan (after the creation of the nodes, after the
\* conflict pass, during and after the staleness pass, in the result) the
\* color of every node is Utils.getStatusColor of its status.
C7_ColorOfStatus ==
  /\ \A w \in 1..Len(workspaces) : ColorsMatch(workspaces[w].dependencies)
  /\ ColorsMatch(allNodes)
  /\ ColorsMatch(graph.nodes)

\* a returned graph with a node the staleness pass marked and a node the
\* conflict pass marked
C7_Witness ==
  /\ Returned
  /\ \E k \in 1..Len(graph.nodes) : graph.nodes[k].status = "outdated"
  /\ \E k \in 1..Len(graph.nodes) : graph.nodes[k].status = "conflict"

\* The Version Comparator contract: strip one leading v or V; a version with
\* a pre-release suffix is less than one without; else the numeric components
\* before the suffix decide, missing and unparseable ones being 0.
StripLeadingV(s) == IF Len(s) > 0 /\ s[1] \in {"v", "V"} THEN Tail(s) ELSE s

ContractParts(s) ==
  LET parts == Split(Split(StripLeadingV(s), "-")[1], ".")
  IN [i \in 1..Len(parts) |-> ParseIntOr0(parts[i])]

ContractLess(a, b) ==
  LET aSuffix == Includes(StripLeadingV(a), "-")
      bSuffix == Includes(StripLeadingV(b), "-")
      d == FirstDiff(ContractParts(a), ContractParts(b))
  IN IF aSuffix /\ ~bSuffix THEN TRUE
     ELSE IF ~aSuffix /\ bSuffix THEN FALSE
     ELSE d # 0 /\ PartAt(ContractParts(a), d) < PartAt(ContractParts(b), d)

\* C8: in the result of a scan with version checking, a node that is not a
\* conflict, has a version string and whose lookup answered L is outdated,
\* with the outdated color and latestVersion = L, exactly when its version is
\* less than L by the Version Comparator contract; otherwise it has the
\* status it was created with.
C8_OutdatedByContract ==
  (Returned /\ options.enableVersionChecking) =>
    \A k \in 1..Len(graph.nodes) :
      LET node == graph.nodes[k]
          L == registry[node.name]
      IN (node.status # "conflict" /\ node.version # OBJ /\ L # UNDEF) =>
           IF ContractLess(node.version, L)
           THEN /\ node.status = "outdated"
                /\ node.color = getStatusColor("outdated")
                /\ node.latestVersion = L
           ELSE node.status = "up-to-date"

\* C9: a scan with enableVersionChecking = false issues no registry lookup,
\* and every returned node that is not a conflict is up-to-date.
C9_NoCheckingNoLookup ==
  (Returned /\ ~options.enableVersionChecking) =>
    /\ lookups = 0
    /\ \A k \in 1..Len(graph.nodes) : graph.nodes[k].status \in {"conflict", "up-to-date"}

\* the status, color and latestVersion of a node
Marks(node) == <<node.status, node.color, node.latestVersion>>

\* C10: a lookup that fails leaves the status, color and latestVersion of its
\* node as they were; the scan fails only for want of a workspace folder; and
\* in the result every node whose lookup answered has what the answer gives,
\* whatever lookups failed in its batch or in earlier batches.
C10_FailedLookupIsolated ==
  /\ [][\A i \in 1..Len(allNodes) :
          (pc = "outdated" /\ registry[allNodes[i].name] = UNDEF)
            => Marks(allNodes'[i]) = Marks(allNodes[i])]_vars
  /\ [](pc = "failed" => Len(roots) = 0)
  /\ [](Returned =>
          \A k \in 1..Len(graph.nodes) :
            LET node == graph.nodes[k]
                L == registry[node.name]
            IN (node.status # "conflict" /\ L # UNDEF /\ node.version # OBJ
                /\ registryCompareVersions(node.version, L) < 0)
                 => Marks(node) = <<"outdated", getStatusColor("outdated"), L>>)

\* a result of two batches: in the first a lookup failed and another marked
\* its node, in the second a lookup marked its node
C10_Witness ==
  /\ Returned
  /\ Len(graph.nodes) > batchSize
  /\ \E k \in 1..batchSize :
       /\ registry[graph.nodes[k].name] = UNDEF
       /\ graph.nodes[k].status = "up-to-date"
  /\ \E k \in 1..batchSize : graph.nodes[k].status = "outdated"
  /\ \E k \in (batchSize + 1)..Len(graph.nodes) : graph.nodes[k].status = "outdated"

\* the positions of the roots whose manifest is readable
ReadableRoots == SelectSeq([i \in 1..Len(roots) |-> i], LAMBDA i : manifests[i].exists)

\* the names the included sections of a manifest declare
DeclaredNames(packageJson) ==
  UNION {EntryNames(SectionOf(packageJson, SectionKeys[k])) :
           k \in {j \in 1..Len(SectionKeys) : IncludeSection(SectionKeys[j], options)}}

ZeroCounts(metadata) ==
  /\ metadata.totalPackages = 0
  /\ metadata.totalDependencies = 0
  /\ metadata.conflicts = 0
  /\ metadata.vulnerabilities = 0
  /\ metadata.outdated = 0

\* C11: the scan fails exactly when there is no workspace root.  A root with
\* an unreadable manifest is dropped: the result lists the readable roots
\* only, every node and edge comes from a readable root, every readable root
\* is scanned (each package it declares has a node of that root), and with no
\* readable root at all the result is the empty graph with zero counts.
C11_OnlyNoRootsFails ==
  /\ pc = "failed" => Len(roots) = 0
  /\ (pc # "start" /\ Len(roots) = 0) => pc = "failed"
  /\ Returned =>
       /\ graph.metadata.workspaceRoots = [k \in 1..Len(ReadableRoots) |-> roots[ReadableRoots[k]]]
       /\ \A n \in 1..Len(allNodes) :
            \E k \in 1..Len(ReadableRoots) : allNodes[n].source = roots[ReadableRoots[k]]
       /\ \A e \in 1..Len(graph.edges) : graph.edges[e].target \in NodeIds(allNodes)
       /\ \A k \in 1..Len(ReadableRoots) :
            \A name \in DeclaredNames(manifests[ReadableRoots[k]]) :
              \E n \in 1..Len(allNodes) :
                allNodes[n].name = name /\ allNodes[n].source = roots[ReadableRoots[k]]
       /\ Len(ReadableRoots) = 0 =>
            /\ graph.nodes = <<>>
            /\ graph.edges = <<>>
            /\ ZeroCounts(graph.metadata)

\* the first of two roots has no readable manifest and the second one gives
\* the nodes of the result
C11_Witness ==
  /\ Returned
  /\ Len(roots) = 2
  /\ ~manifests[1].exists
  /\ manifests[2].exists
  /\ Len(graph.nodes) > 0

\* the packages the included sections of the readable manifests declare
AllDeclaredNames == UNION {DeclaredNames(manifests[ReadableRoots[k]]) : k \in 1..Len(ReadableRoots)}

\* C12: a scan with maxDepth 0 or negative returns a graph (it does not
\* fail) whose nodes are exactly the packages declared in the included
\* manifest sections: none is missing and none comes from a lockfile walk.
C12_NoWalkAtDepthZero ==
  (options.maxDepth <= 0 /\ Len(roots) > 0) =>
    /\ pc # "failed"
    /\ Returned => NodeNames(graph.nodes) = AllDeclaredNames

\* C13: in every returned graph an edge between two returned nodes never goes
\* to a node of lesser depth than its source.
C13_DepthAlongEdges ==
  Returned =>
    \A e \in 1..Len(graph.edges) :
      \A i, j \in 1..Len(graph.nodes) :
        (graph.nodes[i].id = graph.edges[e].source /\ graph.nodes[j].id = graph.edges[e].target)
          => graph.nodes[j].depth >= graph.nodes[i].depth

\* C14: with maxDepth = m >= 1 every returned node has a depth from 0 to m.
C14_DepthWithinMax ==
  (Returned /\ options.maxDepth >= 1) =>
    \A k \in 1..Len(graph.nodes) :
      graph.nodes[k].depth >= 0 /\ graph.nodes[k].depth <= options.maxDepth

EdgeIds(edges) == {edges[e].id : e \in 1..Len(edges)}

C20_EdgeIdFromEndpoints ==
  Returned =>
    \A e \in 1..Len(graph.edges) :
      graph.edges[e].id = graph.edges[e].source \o <<"->">> \o graph.edges[e].target

\* the ids at distance k or less from the roots: the nodes that no edge
\* targets, followed along the edges, through ids of no node as well
RECURSIVE Within(_, _, _)
Within(k, nodes, edges) ==
  IF k = 0
  THEN NodeIds(nodes) \ {edges[e].target : e \in 1..Len(edges)}
  ELSE LET near == Within(k - 1, nodes, edges)
       IN near \cup {edges[e].target : e \in {x \in 1..Len(edges) : edges[x].source \in near}}

\* the distance of id from the nearest root, 0 when no root reaches it
Distance(id, nodes, edges) ==
  LET K == {k \in 0..Len(edges) : id \in Within(k, nodes, edges)}
  IN IF K = {} THEN 0 ELSE CHOOSE k \in K : \A j \in K : k <= j

\* C22: from calculateNodeDepths on, the depth of every node of the final
\* node list is its distance over the final edge list from the nearest root,
\* a root being a node that no edge targets; a node no root reaches has
\* depth 0.  Cycles and edges from or to ids of no returned node included.
C22_DepthIsDistance ==
  pc \in {"outdated", "done"} =>
    \A k \in 1..Len(uniqueNodes) :
      /\ UniqueNodeList[k].depth = Distance(UniqueNodeList[k].id, UniqueNodeList, allEdges)
      /\ Returned => graph.nodes[k].depth = UniqueNodeList[k].depth

\* a returned graph with two packages that require each other, entered from a
\* root two steps away from one of them
C22_Witness ==
  /\ Returned
  /\ \E k \in 1..Len(graph.nodes) : graph.nodes[k].depth = 2
  /\ \E e, f \in 1..Len(graph.edges) :
       /\ graph.edges[e].source = graph.edges[f].target
       /\ graph.edges[e].target = graph.edges[f].source
       /\ graph.edges[e].source # graph.edges[e].target

\* how many nodes of a workspace are its direct dependencies: the walk
\* appended the nodes after them
DirectCount(workspace) ==
  Len(DirectNodes(1, workspace.packageJson, workspace.packageLockJson, workspace.root, options, registry))

\* C23: the transitive walk of a workspace root never adds a node whose id
\* is already in the root's node list: a node the walk appended has the id
\* of no node before it, direct or transitive.
C23_WalkAddsNoDuplicate ==
  \A w \in 1..Len(workspaces) :
    LET deps == workspaces[w].dependencies
    IN \A i \in (DirectCount(workspaces[w]) + 1)..Len(deps) :
         \A j \in 1..(i - 1) : deps[j].id # deps[i].id

\* the nodes as createDependencyNode made them, in the order collected
CreatedNodes == CollectNodes(workspaces)

\* a status is kept or escalated: conflict stays, outdated does not go back
NotDemoted(before, after) ==
  /\ before = "conflict" => after = "conflict"
  /\ before = "outdated" => after \in {"outdated", "conflict"}

\* C24: within one scan the status of a node is only escalated.  No step
\* takes a node from conflict to another status or from outdated back to
\* up-to-date; the nodes the passes work on have a status not below the one
\* they were created with, and the result returns the status they ended with.
C24_StatusOnlyEscalates ==
  /\ [][Len(allNodes') = Len(allNodes) =>
          \A i \in 1..Len(allNodes) : NotDemoted(allNodes[i].status, allNodes'[i].status)]_vars
  /\ [](pc \in {"conflicts", "depths", "outdated", "done"} =>
          /\ Len(allNodes) = Len(CreatedNodes)
          /\ \A i \in 1..Len(allNodes) : NotDemoted(CreatedNodes[i].status, allNodes[i].status))
  /\ [](Returned =>
          \A k \in 1..Len(graph.nodes) : graph.nodes[k].status = allNodes[uniqueNodes[k]].status)

\* a result in which the staleness pass marked one node outdated and left a
\* conflict node alone whose version is behind what the registry answers
C24_Witness ==
  /\ Returned
  /\ \E k \in 1..Len(graph.nodes) :
       /\ graph.nodes[k].status = "outdated"
       /\ CreatedNodes[uniqueNodes[k]].status = "up-to-date"
  /\ \E k \in 1..Len(graph.nodes) :
       /\ graph.nodes[k].status = "conflict"
       /\ graph.nodes[k].version # OBJ
       /\ registry[graph.nodes[k].name] # UNDEF
       /\ registryCompareVersions(graph.nodes[k].version, registry[graph.nodes[k].name]) < 0

\* C25: the staleness pass looks the nodes up in batches of at most 10,
\* taken in the order of the final node list: the lookups in flight are of
\* the 10 positions from batchStart, the batches move forward by whole
\* batches, and lookups are issued only when none is in flight, so that at
\* most 10 are in flight at any time.
C25_BatchesOfTenInOrder ==
  /\ [](/\ Cardinality(pending) <= batchSize
        /\ \A k \in pending : batchStart <= k /\ k < batchStart + batchSize /\ k <= Len(uniqueNodes))
  /\ [][(pc = "outdated" /\ pc' = "outdated") =>
          /\ (pending' \ pending # {}) =>
                /\ pending = {}
                /\ batchStart' = batchStart
                /\ pending' \subseteq BatchPositions
          /\ batchStart' # batchStart => (pending = {} /\ batchStart' = batchStart + batchSize)]_vars

\* the lookups of a second batch are in flight, after a first batch of 10
C25_Witness ==
  /\ pc = "outdated"
  /\ batchStart = batchSize + 1
  /\ pending # {}
  /\ lookups >= batchSize + Cardinality(pending)

\* a node with the status, color and latestVersion of another
WithMarksOf(node, other) ==
  [node EXCEPT !.status = other.status, !.color = other.color, !.latestVersion = other.latestVersion]

\* the node at position i as the staleness pass found it: what the conflict
\* pass left of the node created
BeforeStaleness(i) == WithMarksOf(allNodes[i], processNodesAndConflicts(CreatedNodes).nodes[i])

\* what the lookup of the node at position i makes of it, by itself
AfterOwnLookup(i) ==
  LET node == BeforeStaleness(i)
  IN IF NeedsLookup(node)
     THEN ApplyVersionInfo(node, getVersionInfo(node.version, registry[node.name]))
     ELSE node

\* C26: the lookups in flight are of different nodes; a lookup that
\* completes writes the status, color and latestVersion of its own node and
\* nothing else; and every returned node is what its own lookup makes of
\* it, in whatever order the lookups of its batch completed.
C26_LookupsDoNotInterfere ==
  /\ [](\A k, m \in pending :
          k # m => /\ uniqueNodes[k] # uniqueNodes[m]
                   /\ allNodes[uniqueNodes[k]].id # allNodes[uniqueNodes[m]].id)
  /\ [][(pc = "outdated" /\ pc' = "outdated" /\ allNodes' # allNodes) =>
          \E k \in pending \ pending' :
            /\ pending' = pending \ {k}
            /\ \A i \in 1..Len(allNodes) : i # uniqueNodes[k] => allNodes'[i] = allNodes[i]
            /\ WithMarksOf(allNodes'[uniqueNodes[k]], allNodes[uniqueNodes[k]]) = allNodes[uniqueNodes[k]]]_vars
  /\ [](Returned => \A k \in 1..Len(graph.nodes) : graph.nodes[k] = AfterOwnLookup(uniqueNodes[k]))

\* several lookups of a batch are in flight after one of the batch has
\* completed and marked its node
C26_Witness ==
  /\ pc = "outdated"
  /\ Cardinality(pending) >= 2
  /\ \E k \in BatchPositions \ pending :
       /\ allNodes[uniqueNodes[k]].status = "outdated"
       /\ BeforeStaleness(uniqueNodes[k]).status = "up-to-date"

\* C27: in every returned graph the size of a node is the size function of
\* its final depth and its kind, hence above 0 and at most 20 (sizes are in
\* tenths).
C27_SizeOfFinalDepth ==
  Returned =>
    \A k \in 1..Len(graph.nodes) :
      /\ graph.nodes[k].size = calculateNodeSize(graph.nodes[k].depth, graph.nodes[k].type)
      /\ graph.nodes[k].size > 0
      /\ graph.nodes[k].size <= 200

C29_ConflictNeedsTwoVersions ==
  Returned =>
    \A k \in 1..Len(graph.nodes) :
      graph.nodes[k].status = "conflict" => SeveralVersions(graph.nodes[k].name)

(* ------------------------------------------------------------------ *)
(* Properties of the version comparator                                *)
(* ------------------------------------------------------------------ *)

HasSuffix(v) == Includes(v, "-")

\* C15: Utils.compareVersions is a consistent ordering: a version equals
\* itself, a is less than b exactly when b is greater than a, and less-than
\* is transitive, with and without pre-release suffixes.
C15_ConsistentOrdering ==
  compared # NONE =>
    /\ compared[1].aa = 0
    /\ compared[1].ab = 2 <=> compared[1].ba = 1
    /\ (compared[1].ab = 2 /\ compared[1].bc = 2) => compared[1].ac = 2

\* a chain a < b < c from a pre-release to a release
C15_Witness ==
  /\ compared # NONE
  /\ compared[1].ab = 2
  /\ compared[1].bc = 2
  /\ HasSuffix(verA)
  /\ ~HasSuffix(verC)

\* the result the Version Comparator contract gives, in the code's numbers
ContractCompare(a, b) == IF ContractLess(a, b) THEN 2 ELSE IF ContractLess(b, a) THEN 1 ELSE 0

\* C16: Utils.compareVersions returns what the Version Comparator contract
\* gives on every pair of version strings.
C16_AgreesWithContract ==
  compared # NONE => compared[1].ab = ContractCompare(verA, verB)

NoLeadingV(v) == Len(v) = 0 \/ v[1] \notin {"v", "V"}

\* C17: for version strings a and b without a leading v, a v or a V put
\* before either of them does not change what Utils.compareVersions returns.
C17_LeadingVStripped ==
  (compared # NONE /\ NoLeadingV(verA) /\ NoLeadingV(verB)) =>
    /\ compared[1].vab = compared[1].ab
    /\ compared[1].avb = compared[1].ab
    /\ compared[1].Vab = compared[1].ab
    /\ compared[1].aVb = compared[1].ab

\* the update kind of the contract for versions that are not equal
ContractUpdateKind(current, latest) ==
  LET c == ContractParts(current)
      l == ContractParts(latest)
  IN IF PartAt(c, 1) # PartAt(l, 1) THEN "major"
     ELSE IF PartAt(c, 2) # PartAt(l, 2) THEN "minor"
     ELSE "patch"

\* C18: Utils.getUpdateType returns none exactly when the versions compare
\* equal, and else major, minor or patch by the first of the major and minor
\* components that differs, whichever version is the greater.
C18_UpdateTypeByComponents ==
  (compared # NONE /\ updateType # NONE) =>
    IF compared[1].ab = 0 THEN updateType[1] = "none"
    ELSE updateType[1] = ContractUpdateKind(verA, verB)

(* ------------------------------------------------------------------ *)
(* Properties of the dependency id                                     *)
(* ------------------------------------------------------------------ *)

\* C21: Utils.generateDependencyId is injective: two triples (name, version,
\* root path) that differ, be it only in the parent folders of root paths with
\* the same last segment, never get the same id.
C21_IdInjective ==
  (ids # NONE /\ idArgs.a # idArgs.b) => ids[1].a # ids[1].b

(* ------------------------------------------------------------------ *)
(* Properties of the webview                                           *)
(* ------------------------------------------------------------------ *)

\* C30: from the first graph received on, after every updateData, slider or
\* checkbox event, applyFilters has completed and every edge of filteredData
\* has its source and its target among the nodes of that filteredData.
C30_EdgesWithinFilteredNodes ==
  data # NONE =>
    /\ ~threw
    /\ filteredData # NONE
    /\ \A e \in 1..Len(filteredData[1].edges) :
         EdgePasses(filteredData[1].edges[e], filteredData[1].nodes)

====
